---- MODULE Spec2Model ----
(***************************************************************************)
(* Desktop organizer: the item classifier, the grid calculator, the       *)
(* configuration loader and the organize workflow of desktop_organizer.py. *)
(* Each part has its own specification; the variables of the other parts  *)
(* keep their initial values in it.                                        *)
(*                                                                         *)
(* Strings are sequences of one-character strings, so that substring,      *)
(* lower-casing, splitting and equality are computed as Python computes    *)
(* them.  Keyword scores are kept doubled (1 -> 2, 0.5 -> 1) so that they  *)
(* stay integers.                                                          *)
(***************************************************************************)
EXTENDS Integers, Sequences, FiniteSets, TLC

VARIABLES
    table,        \* self.config["categories"]: the ordered category rules
    pc,           \* "idle" | "iter" (inside the iterdir loop) | "done"
    item,         \* the path handed to classify_item
    result,       \* the value classify_item returned (<<>> while none)
    raised,       \* "none" | "KeyError": the exception that left classify_item
    folder_cat,   \* the value _classify_folder returned (<<>> while none)
    listing,      \* "none" | "open" | "complete" | "error": folder_path.iterdir()
    file_types,   \* _classify_folder's tally, in insertion order
    total_files,  \* _classify_folder's count of file children
    kid           \* "none" | "file" | "dir": the child the loop visited last

classifier_vars ==
    <<table, pc, item, result, raised, folder_cat, listing, file_types,
      total_files, kid>>

VARIABLES
    grid_layout,  \* self.config.get("grid_layout"): {} while the key is absent
    position,     \* the last call of calculate_grid_position and what it gave
    placed        \* the (x, y) position_desktop_items computed for each item

grid_vars == <<grid_layout, position, placed>>

VARIABLES
    document,     \* the file at self.config_path, as _load_config finds it
    config,       \* what __init__ got from _load_config, or the exception
    demo          \* "none" | "ok" | "KeyError": how demo_grid_positions got on

load_vars == <<document, config, demo>>

VARIABLES
    settings,         \* dry_run, create_backup, ask_confirmation,
                      \* grid_layout.enabled of self.config; self.positioner
    desktop,          \* the entries of the user desktop folder
    before,           \* the desktop as it was when the operation began
    step,             \* where organize_desktop stands
    items,            \* what scan_desktop returned, in its order
    classifications,  \* classifications[i]: the category of items[i]
    answer,           \* what input() returned
    cursor,           \* the index the running loop has reached
    backup,           \* what create_backup has copied
    made,             \* the folders create_category_folders has created
    attempts,         \* attempts[i]: the calls of move_item on items[i]
    success_count,    \* success_count of organize_desktop
    os_calls,         \* the calls made on the WindowsDesktopPositioner
    move              \* the last call of move_item and what it did

run_vars ==
    <<settings, desktop, before, step, items, classifications, answer, cursor,
      backup, made, attempts, success_count, os_calls, move>>

\* the variables no step of classify_item touches
outside_classifier == <<grid_vars, load_vars, run_vars>>

\* the variables calculate_grid_position does not touch
outside_grid == <<classifier_vars, load_vars, run_vars>>

\* the variables organize_desktop and move_item do not touch
outside_run == <<classifier_vars, grid_vars, load_vars>>

vars == <<classifier_vars, outside_classifier>>

-----------------------------------------------------------------------------
(* The values of the variables an operation has not touched yet *)

\* calculate_grid_position has not been called
NoCall ==
    [called |-> FALSE, category |-> <<>>, index |-> 0, raised |-> "none",
     x |-> 0, y |-> 0]

\* no "grid_layout" key, no call
GridIdle ==
    /\ grid_layout = {}
    /\ position = NoCall
    /\ placed = <<>>

\* there is no configuration file
NoDocument == [kind |-> "absent", holds |-> {}, value |-> <<>>]

\* _load_config has not run
NotLoaded == [state |-> "unloaded", error |-> "none", value |-> <<>>]

LoadIdle ==
    /\ document = NoDocument
    /\ config = NotLoaded
    /\ demo = "none"

\* the flags of default_config, no grid layout, no positioner
DefaultSettings ==
    [dry_run |-> TRUE, create_backup |-> TRUE, ask_confirmation |-> TRUE,
     grid_enabled |-> FALSE, positioner |-> FALSE]

\* create_backup has not run
NoBackup == [made |-> FALSE, copy |-> {}]

\* nothing was called on the positioner
NoOsCalls == [refresh_desktop |-> 0, set_desktop_icon_position |-> 0,
              find_icon_by_name |-> 0]

\* move_item has not been called
NoMove ==
    [called |-> FALSE, stem |-> <<>>, suffix |-> <<>>, category |-> <<>>,
     existed |-> FALSE, dest |-> <<>>, returned |-> FALSE]

\* organize_desktop has not begun; the desktop is the given one
RunIdleOn(entries) ==
    /\ settings = DefaultSettings
    /\ desktop = entries
    /\ before = entries
    /\ step = "start"
    /\ items = <<>>
    /\ classifications = <<>>
    /\ answer = <<>>
    /\ cursor = 0
    /\ backup = NoBackup
    /\ made = {}
    /\ attempts = <<>>
    /\ success_count = 0
    /\ os_calls = NoOsCalls
    /\ move = NoMove

RunIdle == RunIdleOn({})

\* nothing outside classify_item has happened
OutsideIdle == GridIdle /\ LoadIdle /\ RunIdle

-----------------------------------------------------------------------------
(* Bounds *)

\* longest stem of a file and longest name of a folder
MaxStem == 2

\* most children listed in one folder
MaxKids == 5

-----------------------------------------------------------------------------
(* Strings *)

Alphabet == {"a", "b", " "}

BoundedSeq(S, n) == UNION {[1..k -> S] : k \in 0..n}

Space == <<" ">>

\* str.lower(), one character
Lower(c) ==
    CASE c = "A" -> "a"
      [] c = "B" -> "b"
      [] c = "C" -> "c"
      [] c = "E" -> "e"
      [] c = "F" -> "f"
      [] c = "G" -> "g"
      [] c = "J" -> "j"
      [] c = "M" -> "m"
      [] c = "O" -> "o"
      [] c = "P" -> "p"
      [] c = "T" -> "t"
      [] c = "N" -> "n"
      [] c = "S" -> "s"
      [] c = "Y" -> "y"
      [] OTHER -> c

\* str.lower()
LowerStr(s) == [i \in 1..Len(s) |-> Lower(s[i])]

\* Python's  k in s  on strings
IsSubstr(k, s) ==
    \E i \in 0..(Len(s) - Len(k)) : SubSeq(s, i + 1, i + Len(k)) = k

\* Python's  s.split() : the maximal runs of non-space characters
Split(s) ==
    {SubSeq(s, p[1], p[2]) :
        p \in {q \in (1..Len(s)) \X (1..Len(s)) :
                  /\ q[1] <= q[2]
                  /\ \A k \in q[1]..q[2] : s[k] # " "
                  /\ (q[1] = 1 \/ s[q[1] - 1] = " ")
                  /\ (q[2] = Len(s) \/ s[q[2] + 1] = " ")}}

-----------------------------------------------------------------------------
(* Labels and extensions *)

Folders == <<"F", "o", "l", "d", "e", "r", "s">>
Other == <<"O", "t", "h", "e", "r">>
MediaTools == <<"M", "e", "d", "i", "a", " ", "T", "o", "o", "l", "s">>
CodingTools == <<"C", "o", "d", "i", "n", "g", " ", "T", "o", "o", "l", "s">>

NoExt == <<>>
DotJpg == <<".", "j", "p", "g">>
DotJPG == <<".", "J", "P", "G">>
DotTxt == <<".", "t", "x", "t">>
DotMp3 == <<".", "m", "p", "3">>
DotMp4 == <<".", "m", "p", "4">>
DotExe == <<".", "e", "x", "e">>
DotMsi == <<".", "m", "s", "i">>
DotLnk == <<".", "l", "n", "k">>
DotZzz == <<".", "z", "z", "z">>

\* mimetypes.guess_type(path), main type; "" when the type is unknown
MimeMain(ext) ==
    CASE LowerStr(ext) = DotJpg -> "image"
      [] LowerStr(ext) = DotMp4 -> "video"
      [] LowerStr(ext) = DotMp3 -> "audio"
      [] LowerStr(ext) = DotTxt -> "text"
      [] LowerStr(ext) = DotExe -> "application"
      [] LowerStr(ext) = DotMsi -> "application"
      [] OTHER -> ""

-----------------------------------------------------------------------------
(* The category table *)

\* A category rule as json.load leaves it: the "extensions" and "keywords"
\* keys may be missing, since _load_config fills top-level keys only.
Rule(n, he, e, hk, k) ==
    [name |-> n, hasExt |-> he, extensions |-> e, hasKw |-> hk, keywords |-> k]

CatNames == <<(<<"A">>), (<<"b">>)>>

ExtChoices == {{DotJpg}, {DotExe, DotMsi}}

KwChoices ==
    {<<(<<"a">>)>>, <<(<<"b">>)>>, <<(<<"a", "b">>)>>, <<(<<"a">>), (<<"b">>)>>}

\* every category has both keys
CompleteTables ==
    {<<Rule(CatNames[1], TRUE, e1, TRUE, k1), Rule(CatNames[2], TRUE, e2, TRUE, k2)>> :
        <<e1, k1, e2, k2>> \in ExtChoices \X KwChoices \X ExtChoices \X KwChoices}

\* one category lacks "extensions" or "keywords"
PartialTables ==
    {<<Rule(CatNames[1], he, IF he THEN {DotJpg} ELSE {}, hk,
            IF hk THEN <<(<<"a">>)>> ELSE <<>>),
       Rule(CatNames[2], TRUE, e2, TRUE, k2)>> :
        <<he, hk, e2, k2>> \in
            {q \in BOOLEAN \X BOOLEAN \X ExtChoices \X KwChoices : ~(q[1] /\ q[2])}}

-----------------------------------------------------------------------------
(* _classify_file *)

KeyErr == -1

\* an outcome of a classification: a label returned or KeyError raised
Returned(l) == [raised |-> FALSE, label |-> l]
Raises == [raised |-> TRUE, label |-> <<>>]

\* for keyword in rules["keywords"]: if keyword in file_name
AnyKeywordIn(r, text) ==
    \E j \in 1..Len(r.keywords) : IsSubstr(r.keywords[j], text)

\* Mutant of ExtensionRule: the keyword check guards every extension.
RECURSIVE ExtensionRule_AllGated(_, _, _, _)
ExtensionRule_AllGated(cats, i, file_extension, file_name) ==
    IF i > Len(cats) THEN 0
    ELSE IF ~cats[i].hasExt THEN KeyErr
    ELSE IF file_extension \in cats[i].extensions
         THEN IF ~cats[i].hasKw THEN KeyErr
              ELSE IF AnyKeywordIn(cats[i], file_name) THEN i
              ELSE ExtensionRule_AllGated(cats, i + 1, file_extension, file_name)
    ELSE ExtensionRule_AllGated(cats, i + 1, file_extension, file_name)

\* Mutant of ExtensionRule: .exe and .msi win by extension alone.
RECURSIVE ExtensionRule_Ungated(_, _, _, _)
ExtensionRule_Ungated(cats, i, file_extension, file_name) ==
    IF i > Len(cats) THEN 0
    ELSE IF ~cats[i].hasExt THEN KeyErr
    ELSE IF file_extension \in cats[i].extensions THEN i
    ELSE ExtensionRule_Ungated(cats, i + 1, file_extension, file_name)

\* The extension loop from category i on: the index of the category that
\* wins, 0 when the loop ends without a return, KeyErr on a missing key.
RECURSIVE ExtensionRule(_, _, _, _)
ExtensionRule(cats, i, file_extension, file_name) ==
    IF i > Len(cats) THEN 0
    ELSE IF ~cats[i].hasExt THEN KeyErr
    ELSE IF file_extension \in cats[i].extensions
         THEN IF file_extension \in {DotExe, DotMsi}
              THEN IF ~cats[i].hasKw THEN KeyErr
                   ELSE IF AnyKeywordIn(cats[i], file_name) THEN i
                   ELSE ExtensionRule(cats, i + 1, file_extension, file_name)
              ELSE i
    ELSE ExtensionRule(cats, i + 1, file_extension, file_name)

\* keyword == file_name or (keyword + ' ') in file_name or (' ' + keyword) in file_name
WordBonus(keyword, file_name) ==
    \/ keyword = file_name
    \/ IsSubstr(keyword \o Space, file_name)
    \/ IsSubstr(Space \o keyword, file_name)

\* The inner keyword loop of _classify_file from keyword j on: twice the score.
RECURSIVE FileScore(_, _, _)
FileScore(keywords, j, file_name) ==
    IF j > Len(keywords) THEN 0
    ELSE (IF IsSubstr(keywords[j], file_name)
          THEN 2 + (IF WordBonus(keywords[j], file_name) THEN 1 ELSE 0)
          ELSE 0)
         + FileScore(keywords, j + 1, file_name)

\* Mutant of Better: an equal score overwrites the best match.
Better_OrEqual(score, best_score) == score >= best_score /\ score > 0

\* if score > best_score: best_score = score; best_match = category
Better(score, best_score) == score > best_score

\* The outer keyword loop of _classify_file from category i on: the index of
\* best_match (0 for None), KeyErr on a missing key.
RECURSIVE BestMatch(_, _, _, _, _)
BestMatch(cats, i, file_name, best_match, best_score) ==
    IF i > Len(cats) THEN best_match
    ELSE IF ~cats[i].hasKw THEN KeyErr
    ELSE LET score == FileScore(cats[i].keywords, 1, file_name)
         IN  IF Better(score, best_score)
             THEN BestMatch(cats, i + 1, file_name, i, score)
             ELSE BestMatch(cats, i + 1, file_name, best_match, best_score)

\* the MIME fallback and the default
MimeFallback(suffix) ==
    CASE MimeMain(suffix) \in {"image", "video", "audio"} -> MediaTools
      [] MimeMain(suffix) = "text" -> CodingTools
      [] OTHER -> Other

\* if best_match and best_score > 0: an empty category name is falsy
Truthy(cats, best) == best > 0 /\ Len(cats[best].name) > 0

\* _classify_file on a file that is no shortcut
ClassifyPlainFile(cats, stem, suffix) ==
    LET file_extension == LowerStr(suffix)
        file_name == LowerStr(stem)
        byExt == ExtensionRule(cats, 1, file_extension, file_name)
        best == BestMatch(cats, 1, file_name, 0, 0)
    IN  IF byExt = KeyErr THEN Raises
        ELSE IF byExt > 0 THEN Returned(cats[byExt].name)
        ELSE IF best = KeyErr THEN Raises
        ELSE IF Truthy(cats, best) THEN Returned(cats[best].name)
        ELSE Returned(MimeFallback(suffix))

-----------------------------------------------------------------------------
(* _classify_shortcut *)

\* _get_shortcut_target: a path was returned (ok) with this stem, or None / ""
NoTarget == [ok |-> FALSE, stem |-> <<>>]

\* Mutant of ShortcutBonus: only a keyword equal to the whole name earns it.
ShortcutBonus_ExactOnly(keyword, shortcut_name) == keyword = shortcut_name

\* keyword == shortcut_name or keyword in shortcut_name.split()
ShortcutBonus(keyword, shortcut_name) ==
    \/ keyword = shortcut_name
    \/ keyword \in Split(shortcut_name)

\* The inner keyword loop of _classify_shortcut from keyword j on: twice the score.
RECURSIVE ShortcutScore(_, _, _, _)
ShortcutScore(keywords, j, combined_name, shortcut_name) ==
    IF j > Len(keywords) THEN 0
    ELSE (IF IsSubstr(keywords[j], combined_name)
          THEN 2 + (IF ShortcutBonus(keywords[j], shortcut_name) THEN 1 ELSE 0)
          ELSE 0)
         + ShortcutScore(keywords, j + 1, combined_name, shortcut_name)

\* The outer keyword loop of _classify_shortcut from category i on.
RECURSIVE BestShortcutMatch(_, _, _, _, _, _)
BestShortcutMatch(cats, i, combined_name, shortcut_name, best_match, best_score) ==
    IF i > Len(cats) THEN best_match
    ELSE IF ~cats[i].hasKw THEN KeyErr
    ELSE LET score == ShortcutScore(cats[i].keywords, 1, combined_name, shortcut_name)
         IN  IF score > best_score
             THEN BestShortcutMatch(cats, i + 1, combined_name, shortcut_name, i, score)
             ELSE BestShortcutMatch(cats, i + 1, combined_name, shortcut_name,
                                    best_match, best_score)

\* combined_name = f"{shortcut_name} {target_name}" if target else shortcut_name
CombinedName(stem, target) ==
    IF target.ok
    THEN LowerStr(stem) \o Space \o LowerStr(target.stem)
    ELSE LowerStr(stem)

ClassifyShortcut(cats, stem, target) ==
    LET shortcut_name == LowerStr(stem)
        best == BestShortcutMatch(cats, 1, CombinedName(stem, target),
                                  shortcut_name, 0, 0)
    IN  IF best = KeyErr THEN Raises
        ELSE IF Truthy(cats, best) THEN Returned(cats[best].name)
        ELSE Returned(Other)

\* _classify_file: shortcuts are handed to _classify_shortcut
ClassifyFile(cats, stem, suffix, target) ==
    IF LowerStr(suffix) = DotLnk
    THEN ClassifyShortcut(cats, stem, target)
    ELSE ClassifyPlainFile(cats, stem, suffix)

-----------------------------------------------------------------------------
(* _classify_folder and classify_item *)

\* Mutant of FolderByName: a later category with a keyword in the name
\* replaces an earlier one.
RECURSIVE FolderByName_Last(_, _, _)
FolderByName_Last(cats, i, folder_name) ==
    IF i > Len(cats) THEN 0
    ELSE IF ~cats[i].hasKw THEN KeyErr
    ELSE LET later == FolderByName_Last(cats, i + 1, folder_name)
         IN  IF later # 0 THEN later
             ELSE IF AnyKeywordIn(cats[i], folder_name) THEN i
             ELSE 0

\* The folder-name keyword loop from category i on: the index of the category
\* returned, 0 when no keyword is in the name, KeyErr on a missing key.
RECURSIVE FolderByName(_, _, _)
FolderByName(cats, i, folder_name) ==
    IF i > Len(cats) THEN 0
    ELSE IF ~cats[i].hasKw THEN KeyErr
    ELSE IF AnyKeywordIn(cats[i], folder_name) THEN i
    ELSE FolderByName(cats, i + 1, folder_name)

\* file_types[file_category] = file_types.get(file_category, 0) + 1
Tally(types, category) ==
    IF \E k \in 1..Len(types) : types[k].cat = category
    THEN [k \in 1..Len(types) |->
            IF types[k].cat = category
            THEN [cat |-> category, n |-> types[k].n + 1]
            ELSE types[k]]
    ELSE Append(types, [cat |-> category, n |-> 1])

\* max(file_types.items(), key=lambda x: x[1]): the first entry of largest count
MostCommon(types) ==
    types[CHOOSE k \in 1..Len(types) :
            /\ \A j \in 1..Len(types) : types[j].n <= types[k].n
            /\ \A j \in 1..(k - 1) : types[j].n < types[k].n]

\* Mutant of Dominant: a share of exactly 60% inherits too.
Dominant_AtLeast(count, total) == 5 * count >= 3 * total

\* most_common[1] / total_files > 0.6
Dominant(count, total) == 5 * count > 3 * total

\* the content analysis once the listing is complete
ContentCategory(types, total) ==
    IF total > 0 /\ Dominant(MostCommon(types).n, total)
    THEN MostCommon(types).cat
    ELSE Folders

\* classify_item: if item_path.name == category: return 'Folders'
SameNameGuard(name, category) ==
    IF name = category THEN Folders ELSE category

-----------------------------------------------------------------------------
(* The items on the desktop *)

\* names that str.lower() changes
MixedCase == {<<"A">>, <<"A", "b">>}

Stems == BoundedSeq(Alphabet, MaxStem) \cup MixedCase

Suffixes == {NoExt, DotJpg, DotJPG, DotTxt, DotMp3, DotMp4, DotExe, DotMsi, DotZzz}

Targets == {NoTarget} \cup {[ok |-> TRUE, stem |-> t] : t \in {<<"a">>, <<"b">>, <<"B">>}}

FolderNames == Stems \cup {Other, Folders}

\* the files listed inside a folder
KidStems == {<<" ">>, <<"a">>}
KidSuffixes == {DotJpg, DotZzz}

NoItem == [kind |-> "none", name |-> <<>>, suffix |-> <<>>, target |-> NoTarget]
FileItem(stem, suffix, target) ==
    [kind |-> "file", name |-> stem, suffix |-> suffix, target |-> target]
FolderItem(name) ==
    [kind |-> "folder", name |-> name, suffix |-> <<>>, target |-> NoTarget]

-----------------------------------------------------------------------------
(* Operations *)

Start(tables) ==
    /\ table \in tables
    /\ pc = "idle"
    /\ item = NoItem
    /\ result = <<>>
    /\ raised = "none"
    /\ folder_cat = <<>>
    /\ listing = "none"
    /\ file_types = <<>>
    /\ total_files = 0
    /\ kid = "none"

\* the configuration document is absent or gives every category both keys
Init == Start(CompleteTables) /\ OutsideIdle

\* any configuration document _load_config accepts
InitLoaded == Start(CompleteTables \cup PartialTables) /\ OutsideIdle

\* classify_item returns or raises
Finish(it, outcome) ==
    /\ pc' = "done"
    /\ item' = it
    /\ result' = outcome.label
    /\ raised' = IF outcome.raised THEN "KeyError" ELSE "none"

\* classify_item on a file that is no shortcut
ClassifyRegularFile ==
    /\ pc = "idle"
    /\ \E stem \in Stems, suffix \in Suffixes :
          Finish(FileItem(stem, suffix, NoTarget),
                 ClassifyFile(table, stem, suffix, NoTarget))
    /\ UNCHANGED <<table, folder_cat, listing, file_types, total_files, kid>>
    /\ UNCHANGED outside_classifier

\* classify_item on a .lnk file
ClassifyShortcutFile ==
    /\ pc = "idle"
    /\ \E stem \in Stems, target \in Targets :
          Finish(FileItem(stem, DotLnk, target),
                 ClassifyFile(table, stem, DotLnk, target))
    /\ UNCHANGED <<table, folder_cat, listing, file_types, total_files, kid>>
    /\ UNCHANGED outside_classifier

\* _classify_folder returns category; classify_item applies the same-name guard
FolderReturns(name, category) ==
    /\ folder_cat' = category
    /\ result' = SameNameGuard(name, category)
    /\ raised' = "none"
    /\ pc' = "done"

\* classify_item on a folder, up to the call of iterdir
ClassifyFolder ==
    /\ pc = "idle"
    /\ \E name \in FolderNames :
          LET byName == FolderByName(table, 1, LowerStr(name))
          IN  /\ item' = FolderItem(name)
              /\ IF byName = KeyErr
                 THEN /\ Finish(FolderItem(name), Raises)
                      /\ UNCHANGED <<folder_cat, listing>>
                 ELSE IF byName > 0
                 THEN /\ FolderReturns(name, table[byName].name)
                      /\ UNCHANGED listing
                 ELSE /\ pc' = "iter"
                      /\ listing' = "open"
                      /\ UNCHANGED <<result, raised, folder_cat>>
    /\ UNCHANGED <<table, file_types, total_files, kid>>
    /\ UNCHANGED outside_classifier

\* the loop body for a child with item.is_file()
FolderChildFile ==
    /\ pc = "iter"
    /\ total_files < MaxKids
    /\ \E stem \in KidStems, suffix \in KidSuffixes :
          LET outcome == ClassifyFile(table, stem, suffix, NoTarget)
          IN  IF outcome.raised
              THEN /\ Finish(item, Raises)
                   /\ total_files' = total_files + 1
                   /\ UNCHANGED file_types
              ELSE /\ total_files' = total_files + 1
                   /\ file_types' = Tally(file_types, outcome.label)
                   /\ UNCHANGED <<pc, item, result, raised>>
    /\ kid' = "file"
    /\ UNCHANGED <<table, folder_cat, listing>>
    /\ UNCHANGED outside_classifier

\* Mutant of FolderChildDir: a sub-folder counts in total_files.
FolderChildDir_Counted ==
    /\ pc = "iter"
    /\ total_files < MaxKids
    /\ kid' = "dir"
    /\ total_files' = total_files + 1
    /\ UNCHANGED <<table, pc, item, result, raised, folder_cat, listing, file_types>>
    /\ UNCHANGED outside_classifier

\* the loop body for a child that is no file (a sub-folder)
FolderChildDir ==
    /\ pc = "iter"
    /\ kid' = "dir"
    /\ UNCHANGED <<table, pc, item, result, raised, folder_cat, listing,
                   file_types, total_files>>
    /\ UNCHANGED outside_classifier

\* Mutant of FolderListError: the tally gathered before the error decides.
FolderListError_KeepsTally ==
    /\ pc = "iter"
    /\ listing' = "error"
    /\ FolderReturns(item.name, ContentCategory(file_types, total_files))
    /\ UNCHANGED <<table, item, file_types, total_files, kid>>
    /\ UNCHANGED outside_classifier

\* iterdir raises PermissionError / OSError, at once or part-way
FolderListError ==
    /\ pc = "iter"
    /\ listing' = "error"
    /\ FolderReturns(item.name, Folders)
    /\ UNCHANGED <<table, item, file_types, total_files, kid>>
    /\ UNCHANGED outside_classifier

\* iterdir is exhausted
FolderListEnd ==
    /\ pc = "iter"
    /\ listing' = "complete"
    /\ FolderReturns(item.name, ContentCategory(file_types, total_files))
    /\ UNCHANGED <<table, item, file_types, total_files, kid>>
    /\ UNCHANGED outside_classifier

Next ==
    \/ ClassifyRegularFile
    \/ ClassifyShortcutFile
    \/ ClassifyFolder
    \/ FolderChildFile
    \/ FolderChildDir
    \/ FolderListError
    \/ FolderListEnd

Spec == Init /\ [][Next]_vars

SpecLoaded == InitLoaded /\ [][Next]_vars

-----------------------------------------------------------------------------
(* Vocabulary of the properties, stated over the table and the item alone *)

Min(S) == CHOOSE x \in S : \A y \in S : x <= y
Max(S) == CHOOSE x \in S : \A y \in S : y <= x

Cats == 1..Len(table)

Done(kind) == pc = "done" /\ item.kind = kind

IsShortcut == LowerStr(item.suffix) = DotLnk
IsGated == LowerStr(item.suffix) \in {DotExe, DotMsi}

\* the categories whose extension set holds the item's lowercase extension
ListingCats == {i \in Cats : LowerStr(item.suffix) \in table[i].extensions}

\* the keywords of category i that are substrings of the text
Hits(i, text) ==
    {j \in 1..Len(table[i].keywords) : IsSubstr(table[i].keywords[j], text)}

\* the categories that list the extension and have a keyword in the stem
GatedCats == {i \in ListingCats : Hits(i, LowerStr(item.name)) # {}}

\* the extension rule decides the file
ByExtension == IF IsGated THEN GatedCats # {} ELSE ListingCats # {}

\* the hits that equal the text or stand next to a space in it
WholeWordHits(i, text) ==
    {j \in Hits(i, text) :
        \/ table[i].keywords[j] = text
        \/ IsSubstr(table[i].keywords[j] \o <<" ">>, text)
        \/ IsSubstr(<<" ">> \o table[i].keywords[j], text)}

\* twice the weighted score: 1 per hit, 0.5 more per whole-word hit
Weighted(i, text) ==
    2 * Cardinality(Hits(i, text)) + Cardinality(WholeWordHits(i, text))

TopScore(text) == Max({Weighted(i, text) : i \in Cats} \cup {0})

\* the earliest category of the highest score; 0 when that score is 0
KeywordWinner(text) ==
    IF TopScore(text) = 0 THEN 0
    ELSE Min({i \in Cats : Weighted(i, text) = TopScore(text)})

\* the label of the coarse MIME type of the extension, "Other" without one
MimeLabel ==
    IF LowerStr(item.suffix) \in {DotJpg, DotMp3, DotMp4} THEN MediaTools
    ELSE IF LowerStr(item.suffix) = DotTxt THEN CodingTools
    ELSE Other

\* the text a shortcut is scored on
ShortcutText ==
    IF item.target.ok
    THEN LowerStr(item.name) \o <<" ">> \o LowerStr(item.target.stem)
    ELSE LowerStr(item.name)

-----------------------------------------------------------------------------
(* C1 *)

\* C1 (as claimed): for every item and every category table the loader
\* returns, classify_item raises nothing and returns a non-empty label, and a
\* file that no extension, keyword or MIME rule matches is labelled "Other".
\* Refuted under SpecLoaded: a category without "extensions" or "keywords"
\* makes classify_item raise KeyError.
C1_Totality ==
    pc = "done" =>
        /\ raised = "none"
        /\ Len(result) > 0
        /\ (/\ item.kind = "file"
            /\ ListingCats = {}
            /\ \A i \in Cats :
                  Hits(i, IF IsShortcut THEN ShortcutText ELSE LowerStr(item.name)) = {}
            /\ MimeLabel = Other)
           => result = Other

-----------------------------------------------------------------------------
(* C2 *)

\* C2 (as claimed): a folder whose name equals, ignoring case, the category
\* that folder classification produces is classified "Folders"; so no folder
\* gets a label that equals its own name ignoring case, except "Folders".
\* Refuted: classify_item compares the name and the category case-sensitively.
C2_SameNameGuard ==
    Done("folder") /\ raised = "none" =>
        /\ LowerStr(item.name) = LowerStr(folder_cat) => result = Folders
        /\ LowerStr(result) = LowerStr(item.name) => result = Folders

-----------------------------------------------------------------------------
(* C3 *)

\* C3: a file that is no shortcut, whose lowercase extension is neither .exe
\* nor .msi and is listed by at least one category, is classified to the
\* first category in table order that lists it, whatever keywords its stem
\* holds.
C3_ExtensionPrecedence ==
    Done("file") /\ ~IsShortcut /\ ~IsGated /\ ListingCats # {} =>
        /\ raised = "none"
        /\ result = table[Min(ListingCats)].name

\* an upper-case extension listed by both categories, on a stem that holds a
\* keyword of the second category only
C3_Witness ==
    /\ Done("file")
    /\ item.suffix = DotJPG
    /\ ListingCats = {1, 2}
    /\ Hits(1, LowerStr(item.name)) = {}
    /\ Hits(2, LowerStr(item.name)) # {}
    /\ result = table[1].name

-----------------------------------------------------------------------------
(* C4 *)

\* C4: for a file with extension .exe or .msi a category wins by the
\* extension rule only if it lists the extension and one of its own keywords
\* is a substring of the lowercase stem (the first such category wins); when
\* no listing category has such a keyword the file is classified by weighted
\* keyword scoring over all categories, then by MIME type, then "Other".
C4_ExeGating ==
    Done("file") /\ IsGated =>
        /\ raised = "none"
        /\ result = IF GatedCats # {} THEN table[Min(GatedCats)].name
                    ELSE IF KeywordWinner(LowerStr(item.name)) # 0
                    THEN table[KeywordWinner(LowerStr(item.name))].name
                    ELSE MimeLabel

\* an .exe that the first category lists without a keyword in the stem, and
\* that keyword scoring gives to the second category, which does not list it
C4_Witness ==
    /\ Done("file")
    /\ LowerStr(item.suffix) = DotExe
    /\ ListingCats = {1}
    /\ GatedCats = {}
    /\ KeywordWinner(LowerStr(item.name)) = 2
    /\ result = table[2].name

-----------------------------------------------------------------------------
(* C5 *)

\* C5: for a file that is no shortcut and that the extension rule does not
\* decide, each category scores 1 per keyword that is a substring of the
\* lowercase stem plus 0.5 per such keyword that equals the stem or stands
\* next to a space in it; the highest score wins, the earliest category on a
\* tie; a highest score of 0 is no match (MIME type, then "Other", decide).
C5_KeywordScoring ==
    Done("file") /\ ~IsShortcut /\ ~ByExtension =>
        /\ raised = "none"
        /\ result = IF KeywordWinner(LowerStr(item.name)) # 0
                    THEN table[KeywordWinner(LowerStr(item.name))].name
                    ELSE MimeLabel

\* two categories tie on a score that holds a whole-word bonus
C5_Witness ==
    /\ Done("file")
    /\ ~IsShortcut
    /\ ~ByExtension
    /\ Weighted(1, LowerStr(item.name)) = 3
    /\ Weighted(2, LowerStr(item.name)) = 3
    /\ table[1].keywords # table[2].keywords
    /\ result = table[1].name

-----------------------------------------------------------------------------
(* C6 *)

\* k is one of the space-separated words of s
IsWordOf(k, s) ==
    /\ Len(k) > 0
    /\ \A n \in 1..Len(k) : k[n] # " "
    /\ \E i \in 1..Len(s) :
          /\ i + Len(k) - 1 <= Len(s)
          /\ SubSeq(s, i, i + Len(k) - 1) = k
          /\ (i = 1 \/ s[i - 1] = " ")
          /\ (i + Len(k) - 1 = Len(s) \/ s[i + Len(k)] = " ")

\* twice the score of a shortcut: 1 per keyword in the combined text, 0.5
\* more per such keyword that is the shortcut's own stem or a word of it
ShortcutWeighted(i) ==
    2 * Cardinality(Hits(i, ShortcutText))
    + Cardinality({j \in Hits(i, ShortcutText) :
                     \/ table[i].keywords[j] = LowerStr(item.name)
                     \/ IsWordOf(table[i].keywords[j], LowerStr(item.name))})

ShortcutTop == Max({ShortcutWeighted(i) : i \in Cats} \cup {0})

ShortcutWinner ==
    IF ShortcutTop = 0 THEN 0
    ELSE Min({i \in Cats : ShortcutWeighted(i) = ShortcutTop})

\* C6 (as claimed): a .lnk file gets the result of the weighted keyword
\* scoring of step 4, with the same whole-word bonus, applied to the combined
\* text (shortcut stem, space, target stem; the stem alone without a
\* target), and "Other" when that scoring has no match.
\* Refuted: the bonus of _classify_shortcut is not the bonus of step 4.
C6_ShortcutAsStep4 ==
    Done("file") /\ IsShortcut =>
        /\ raised = "none"
        /\ result = IF KeywordWinner(ShortcutText) # 0
                    THEN table[KeywordWinner(ShortcutText)].name
                    ELSE Other

\* C6 (amended): a .lnk file is classified by keyword scoring on the combined
\* text in which a category scores 1 per keyword that is a substring of the
\* combined text plus 0.5 per such keyword that equals the lowercase shortcut
\* stem or one of its space-separated words; the highest score wins, the
\* earliest category on a tie; without a match the result is "Other";
\* extension and MIME rules never apply.
C6_ShortcutScoring ==
    Done("file") /\ IsShortcut =>
        /\ raised = "none"
        /\ result = IF ShortcutWinner # 0 THEN table[ShortcutWinner].name
                    ELSE Other

\* a shortcut with a target whose stem holds a keyword of the first category:
\* step 4 would give that keyword the bonus and the tie to the first category
C6_Witness ==
    /\ Done("file")
    /\ IsShortcut
    /\ item.target.ok
    /\ KeywordWinner(ShortcutText) = 1
    /\ ShortcutWinner = 2
    /\ result = table[2].name

-----------------------------------------------------------------------------
(* Vocabulary of the folder properties *)

\* the categories with a keyword in the folder's lowercase name
NameCats == {i \in Cats : Hits(i, LowerStr(item.name)) # {}}

\* m: the count of the most frequent category among n >= 1 file children
TopCount(types) == Max({types[k].n : k \in 1..Len(types)})

\* the categories that reach that count
TopCats(types) ==
    {types[k].cat : k \in {j \in 1..Len(types) : types[j].n = TopCount(types)}}

\* m / n is strictly greater than 60%
Inherits(types, n) == n >= 1 /\ 100 * TopCount(types) > 60 * n

-----------------------------------------------------------------------------
(* C7 *)

\* C7 (as claimed): a folder without a category keyword in its name, with
\* n >= 1 file children of which m belong to the most frequent category C, is
\* classified C exactly when m/n > 60%; at 60% or below, and without files,
\* it is classified "Folders".
\* Refuted: when the folder's name is C the same-name guard returns "Folders".
C7_MajorityUnguarded ==
    Done("folder") /\ NameCats = {} /\ listing = "complete" =>
        /\ raised = "none"
        /\ IF Inherits(file_types, total_files)
           THEN TopCats(file_types) = {result}
           ELSE result = Folders

\* C7 (amended): such a folder is classified C exactly when m/n > 60% and its
\* name is not C; when m/n > 60% and its name is C, and when m/n <= 60%, and
\* without files, it is classified "Folders".
C7_MajorityRule ==
    Done("folder") /\ NameCats = {} /\ listing = "complete" =>
        /\ raised = "none"
        /\ IF Inherits(file_types, total_files)
           THEN IF item.name \in TopCats(file_types)
                THEN result = Folders
                ELSE TopCats(file_types) = {result}
           ELSE result = Folders

\* exactly 60%: 3 of 5 files in the most frequent category
C7_Witness ==
    /\ Done("folder")
    /\ NameCats = {}
    /\ listing = "complete"
    /\ total_files = 5
    /\ TopCount(file_types) = 3
    /\ result = Folders

-----------------------------------------------------------------------------
(* C8 *)

\* C8: when a keyword of some category is a substring of the folder's
\* lowercase name, _classify_folder returns the first category in table order
\* that has such a keyword and the folder is never listed; the contents are
\* listed only when no keyword of any category is in the name.
C8_NameKeywordFirst ==
    item.kind = "folder" /\ raised = "none" =>
        IF NameCats # {}
        THEN /\ pc = "done"
             /\ folder_cat = table[Min(NameCats)].name
             /\ listing = "none"
             /\ kid = "none"
             /\ total_files = 0
        ELSE listing # "none"

\* a name with an upper-case letter that holds keywords of both categories
C8_Witness ==
    /\ Done("folder")
    /\ NameCats = {1, 2}
    /\ item.name # LowerStr(item.name)
    /\ folder_cat = table[1].name
    /\ listing = "none"

-----------------------------------------------------------------------------
(* C9 *)

\* C9: when listing the children of a folder without a category keyword in
\* its name fails, at the start or part-way, classify_item raises nothing,
\* the partial tally is discarded and the folder is classified "Folders".
C9_UnreadableFolder ==
    Done("folder") /\ listing = "error" =>
        /\ NameCats = {}
        /\ raised = "none"
        /\ folder_cat = Folders
        /\ result = Folders

\* the listing fails after files of which more than 60% share one category
C9_Witness ==
    /\ Done("folder")
    /\ listing = "error"
    /\ Inherits(file_types, total_files)
    /\ item.name \notin TopCats(file_types)
    /\ result = Folders

-----------------------------------------------------------------------------
(* C10 *)

\* C10: a sub-folder among the children is neither classified nor counted:
\* visiting it leaves the tally and the total of the 60% threshold as they
\* were, and the category _classify_folder returns at the end of the listing
\* is decided by the tally of the file children alone.
C10_OneLevel ==
    /\ [][pc = "iter" /\ pc' = "iter" /\ kid' = "dir" =>
            file_types' = file_types /\ total_files' = total_files]_vars
    /\ [][pc = "iter" /\ listing' = "complete" =>
            IF Inherits(file_types, total_files)
            THEN TopCats(file_types) = {folder_cat'}
            ELSE folder_cat' = Folders]_vars

\* 2 of 3 files share a category and a sub-folder was listed last: counted,
\* the sub-folder would bring the share down to 50%
C10_Witness ==
    /\ Done("folder")
    /\ listing = "complete"
    /\ kid = "dir"
    /\ total_files = 3
    /\ TopCount(file_types) = 2
    /\ TopCats(file_types) = {result}

-----------------------------------------------------------------------------
(* calculate_grid_position *)

\* largest "max_columns" a configuration document gives
MaxColumns == 2

\* largest item_index_in_category
MaxIndex == 4

\* a key of a JSON object: {} while the key is absent, {v} while it holds v
Opt(S) == {{}} \cup {{v} : v \in S}

\* dict.get(key, default)
Get(entry, default) == IF entry = {} THEN default ELSE CHOOSE v \in entry : TRUE

\* the {} that .get("grid_size", {}) falls back to
EmptySize == [width |-> {}, height |-> {}]

\* the {} that .get("start_position", {}) and .get("category_spacing", {}) fall back to
EmptyPoint == [x |-> {}, y |-> {}]

\* the {} that self.config.get("grid_layout", {}) falls back to
EmptyGrid ==
    [grid_size |-> {}, start_position |-> {}, max_columns |-> {},
     category_spacing |-> {}, category_order |-> {}]

DefaultWidth == 100
DefaultHeight == 100
DefaultStartX == 50
DefaultStartY == 50
DefaultMaxColumns == 8
DefaultSpacingX == 200
DefaultSpacingY == 150
DefaultOrder == <<>>

\* categories_per_row
CategoriesPerRow == 3

\* the "category_order" lists a document gives
Orders ==
    {<<>>,
     <<CatNames[1]>>,
     <<CatNames[2], CatNames[1]>>,
     <<CatNames[2], Other, CatNames[1]>>,
     <<CatNames[2], Other, Folders, CatNames[1]>>,
     <<CatNames[1], CatNames[2], CatNames[1]>>}

\* the "grid_layout" sections a document gives, absent and partial ones included
GridLayouts ==
    Opt([grid_size : Opt([width : Opt({3}), height : Opt({5})]),
         start_position : Opt([x : Opt({7}), y : Opt({11})]),
         max_columns : Opt(0..MaxColumns),
         category_spacing : Opt([x : Opt({13}), y : Opt({17})]),
         category_order : Opt(Orders)])

\* the labels classify_item hands to the grid
GridCategories == {CatNames[1], CatNames[2], Other, Folders, MediaTools}

\* category_order.index(category) searched from element i on, 0-based;
\* len(category_order) where index raises ValueError
RECURSIVE CategoryIndex(_, _, _)
CategoryIndex(category_order, category, i) ==
    IF i > Len(category_order) THEN Len(category_order)
    ELSE IF category_order[i] = category THEN i - 1
    ELSE CategoryIndex(category_order, category, i + 1)

\* calculate_grid_position: the pair returned, or the exception of  // and %
CalculateGridPosition(layout, category, item_index_in_category) ==
    LET grid_config == Get(layout, EmptyGrid)
        grid_width == Get(Get(grid_config.grid_size, EmptySize).width, DefaultWidth)
        grid_height == Get(Get(grid_config.grid_size, EmptySize).height, DefaultHeight)
        start_x == Get(Get(grid_config.start_position, EmptyPoint).x, DefaultStartX)
        start_y == Get(Get(grid_config.start_position, EmptyPoint).y, DefaultStartY)
        max_columns == Get(grid_config.max_columns, DefaultMaxColumns)
        category_spacing_x ==
            Get(Get(grid_config.category_spacing, EmptyPoint).x, DefaultSpacingX)
        category_spacing_y ==
            Get(Get(grid_config.category_spacing, EmptyPoint).y, DefaultSpacingY)
        category_order == Get(grid_config.category_order, DefaultOrder)
        category_index == CategoryIndex(category_order, category, 1)
        category_row == category_index \div CategoriesPerRow
        category_col == category_index % CategoriesPerRow
        category_base_x == start_x + (category_col * category_spacing_x)
        category_base_y == start_y + (category_row * category_spacing_y)
    IN  IF max_columns = 0
        THEN [raised |-> "ZeroDivisionError", x |-> 0, y |-> 0]
        ELSE LET item_row == item_index_in_category \div max_columns
                 item_col == item_index_in_category % max_columns
             IN  [raised |-> "none",
                  x |-> category_base_x + (item_col * grid_width),
                  y |-> category_base_y + (item_row * grid_height)]

\* a table for the specifications that classify nothing
OneTable ==
    <<Rule(CatNames[1], TRUE, {DotJpg}, TRUE, <<(<<"a">>)>>),
      Rule(CatNames[2], TRUE, {DotExe, DotMsi}, TRUE, <<(<<"b">>)>>)>>

\* the configuration is loaded; nothing is positioned yet
InitGrid ==
    /\ Start({OneTable})
    /\ grid_layout \in GridLayouts
    /\ position = NoCall
    /\ placed = <<>>
    /\ LoadIdle
    /\ RunIdle

\* calculate_grid_position is called; it reads the configuration and its
\* arguments only, so one call per configuration shows all it does
CalculatePosition ==
    /\ ~position.called
    /\ \E category \in GridCategories, index \in 0..MaxIndex :
          LET got == CalculateGridPosition(grid_layout, category, index)
          IN  position' = [called |-> TRUE, category |-> category,
                           index |-> index, raised |-> got.raised,
                           x |-> got.x, y |-> got.y]
    /\ UNCHANGED <<grid_layout, placed, outside_grid>>

NextGrid == CalculatePosition

SpecGrid == InitGrid /\ [][NextGrid]_vars

-----------------------------------------------------------------------------
(* Vocabulary of the grid properties, stated over the configuration alone *)

\* the value under a key of the grid section; {} when section or key is absent
Section(key) ==
    IF grid_layout = {} THEN {} ELSE (CHOOSE g \in grid_layout : TRUE)[key]

\* the value under key.field of the grid section, the default where missing
Setting(key, field, default) ==
    IF Section(key) = {} THEN default
    ELSE LET given == (CHOOSE r \in Section(key) : TRUE)[field]
         IN  IF given = {} THEN default ELSE CHOOSE n \in given : TRUE

cellWidth == Setting("grid_size", "width", 100)
cellHeight == Setting("grid_size", "height", 100)
startX == Setting("start_position", "x", 50)
startY == Setting("start_position", "y", 50)
categorySpacingX == Setting("category_spacing", "x", 200)
categorySpacingY == Setting("category_spacing", "y", 150)

maxColumns ==
    IF Section("max_columns") = {} THEN 8
    ELSE CHOOSE n \in Section("max_columns") : TRUE

categoryOrder ==
    IF Section("category_order") = {} THEN <<>>
    ELSE CHOOSE o \in Section("category_order") : TRUE

\* the 0-based position of c in categoryOrder, its length N when c is absent
OrderIndex(c) ==
    LET at == {i \in 1..Len(categoryOrder) : categoryOrder[i] = c}
    IN  IF at = {} THEN Len(categoryOrder) ELSE Min(at) - 1

\* the base position of the block of category c
BaseX(c) == startX + (OrderIndex(c) % 3) * categorySpacingX
BaseY(c) == startY + (OrderIndex(c) \div 3) * categorySpacingY

\* the call returned the pair the grid formula gives
AsFormula ==
    /\ position.raised = "none"
    /\ position.x = BaseX(position.category)
                    + (position.index % maxColumns) * cellWidth
    /\ position.y = BaseY(position.category)
                    + (position.index \div maxColumns) * cellHeight

-----------------------------------------------------------------------------
(* C11 *)

\* C11 (as claimed): for every category c, index i >= 0 and configuration
\* with non-negative values, calculate_grid_position(c, i) is the pair
\* (startX + (k mod 3) * categorySpacingX + (i mod maxColumns) * cellWidth,
\*  startY + (k div 3) * categorySpacingY + (i div maxColumns) * cellHeight),
\* k the position of c in categoryOrder or its length when c is absent.
\* Refuted by the non-negative value max_columns = 0: the call returns no
\* pair, it raises ZeroDivisionError.
C11_GridFormula == position.called => AsFormula

\* C11 where max_columns is at least 1: the formula holds, index 0 of the
\* first category yields (startX, startY), index = maxColumns yields x at the
\* category base and y one cellHeight lower, and a category absent from
\* categoryOrder gets the base position of index N.
C11_GridFormulaPositive ==
    position.called /\ maxColumns >= 1 =>
        /\ AsFormula
        /\ (OrderIndex(position.category) = 0 /\ position.index = 0 =>
                position.x = startX /\ position.y = startY)
        /\ (position.index = maxColumns =>
                /\ position.x = BaseX(position.category)
                /\ position.y = BaseY(position.category) + cellHeight)
        /\ (position.category \notin {categoryOrder[i] : i \in 1..Len(categoryOrder)} =>
                /\ BaseX(position.category) =
                       startX + (Len(categoryOrder) % 3) * categorySpacingX
                /\ BaseY(position.category) =
                       startY + (Len(categoryOrder) \div 3) * categorySpacingY)

\* the call that refutes C11: a non-negative configuration, no pair returned
C11_Witness ==
    /\ position.called
    /\ maxColumns = 0
    /\ position.raised = "ZeroDivisionError"

-----------------------------------------------------------------------------
(* C12 *)

\* C12 (as claimed): for every category, every non-negative index and every
\* grid configuration the loader can produce (absent or partial grid_layout,
\* any configured max_columns), calculate_grid_position returns a pair and
\* raises no error.  Refuted: "max_columns": 0 makes the call raise.
C12_NeverFails == position.called => position.raised = "none"

\* a call on a configuration whose other keys are all absent raises
C12_Witness ==
    /\ position.called
    /\ position.raised # "none"
    /\ grid_layout = {[EmptyGrid EXCEPT !.max_columns = {0}]}

-----------------------------------------------------------------------------
(* _load_config *)

\* the keys of default_config
TopKeys == {"categories", "ignore_files", "dry_run", "create_backup", "ask_confirmation"}

\* default_config; it has no "grid_layout" key
default_config ==
    [categories |-> OneTable,
     ignore_files |-> {".DS_Store", "Thumbs.db", "desktop.ini"},
     dry_run |-> TRUE,
     create_backup |-> TRUE,
     ask_confirmation |-> TRUE,
     grid_layout |-> {}]

\* the "categories" objects of a document: complete, lacking a key, empty
DocCategories ==
    {<<Rule(CatNames[1], TRUE, {DotJpg}, TRUE, <<(<<"b">>)>>)>>,
     <<Rule(CatNames[1], FALSE, {}, TRUE, <<(<<"a">>)>>)>>,
     <<Rule(CatNames[1], TRUE, {DotJpg}, FALSE, <<>>)>>,
     <<>>}

\* the "grid_layout" objects of a document: empty, partial, complete
DocGridLayouts ==
    {EmptyGrid,
     [EmptyGrid EXCEPT !.grid_size = {[width |-> {3}, height |-> {}]}],
     [grid_size |-> {[width |-> {3}, height |-> {5}]},
      start_position |-> {[x |-> {7}, y |-> {11}]},
      max_columns |-> {2},
      category_spacing |-> {[x |-> {13}, y |-> {17}]},
      category_order |-> {<<CatNames[2], CatNames[1]>>}]}

\* a JSON object: any subset of the keys
DocObjects ==
    [categories : Opt(DocCategories),
     ignore_files : Opt({{"Thumbs.db"}}),
     dry_run : Opt(BOOLEAN),
     create_backup : Opt(BOOLEAN),
     ask_confirmation : Opt(BOOLEAN),
     grid_layout : Opt(DocGridLayouts)]

\* What os.path.exists, open and json.load make of the file:
\*   absent       no file
\*   unreadable   open or read raises IOError
\*   undecodable  the bytes are no text in the locale's encoding
\*   not_json     json.load raises JSONDecodeError
\*   scalar       the JSON text is null, a number, true or false
\*   array        a JSON array; holds = the default keys among its elements
\*   string       a JSON string; holds = the default keys that occur in it
\*   object       a JSON object
Documents ==
    {[kind |-> k, holds |-> {}, value |-> <<>>] :
        k \in {"absent", "unreadable", "undecodable", "not_json", "scalar"}}
    \cup {[kind |-> k, holds |-> h, value |-> <<>>] :
            k \in {"array", "string"}, h \in {{}, {"dry_run"}, TopKeys}}
    \cup {[kind |-> "object", holds |-> {}, value |-> v] : v \in DocObjects}

\* _load_config returned this dict
Loaded(c) == [state |-> "loaded", error |-> "none", value |-> c]

\* an exception leaves __init__
Failed(e) == [state |-> "raised", error |-> e, value |-> <<>>]

\* if key not in config: config[key] = value
MergeKey(given, default) == Get(given, default)

\* for key, value in default_config.items(): the top-level keys only
MergeDefaults(doc) ==
    [categories |-> MergeKey(doc.categories, default_config.categories),
     ignore_files |-> MergeKey(doc.ignore_files, default_config.ignore_files),
     dry_run |-> MergeKey(doc.dry_run, default_config.dry_run),
     create_backup |-> MergeKey(doc.create_backup, default_config.create_backup),
     ask_confirmation |-> MergeKey(doc.ask_confirmation, default_config.ask_confirmation),
     grid_layout |-> doc.grid_layout]

\* except (json.JSONDecodeError, IOError)
Caught(kind) == kind \in {"unreadable", "not_json"}

\* self.config = self._load_config() followed by self._setup_logging(), whose
\* self.config.get raises AttributeError on a list or a string
LoadConfig(doc) ==
    IF doc.kind = "absent" THEN Loaded(default_config)
    ELSE IF doc.kind \in {"unreadable", "not_json", "undecodable"}
    THEN IF Caught(doc.kind) THEN Loaded(default_config)
         ELSE Failed(IF doc.kind = "undecodable" THEN "UnicodeDecodeError"
                     ELSE IF doc.kind = "not_json" THEN "JSONDecodeError"
                     ELSE "IOError")
    ELSE IF doc.kind = "scalar" THEN Failed("TypeError")
    ELSE IF doc.kind \in {"array", "string"}
    THEN IF TopKeys \subseteq doc.holds THEN Failed("AttributeError")
         ELSE Failed("TypeError")
    ELSE Loaded(MergeDefaults(doc.value))

\* the program starts: some file, or none, is at config_path
InitLoad ==
    /\ Start({OneTable})
    /\ GridIdle
    /\ document \in Documents
    /\ config = NotLoaded
    /\ demo = "none"
    /\ RunIdle

\* DesktopOrganizer.__init__
Construct ==
    /\ config.state = "unloaded"
    /\ config' = LoadConfig(document)
    /\ table' = IF config'.state = "loaded" THEN config'.value.categories ELSE table
    /\ grid_layout' =
          IF config'.state = "loaded" THEN config'.value.grid_layout ELSE grid_layout
    /\ UNCHANGED <<document, demo, pc, item, result, raised, folder_cat,
                   listing, file_types, total_files, kid, position, placed,
                   run_vars>>

\* classify_item on a file, with the loaded configuration
ClassifyOnLoaded ==
    /\ config.state = "loaded"
    /\ pc = "idle"
    /\ \E suffix \in {DotJpg, DotZzz} :
          Finish(FileItem(<<"a">>, suffix, NoTarget),
                 ClassifyFile(table, <<"a">>, suffix, NoTarget))
    /\ UNCHANGED <<table, folder_cat, listing, file_types, total_files, kid>>
    /\ UNCHANGED outside_classifier

\* calculate_grid_position, with the loaded configuration
PositionOnLoaded ==
    /\ config.state = "loaded"
    /\ CalculatePosition

\* demo_grid_positions up to its first calculate_grid_position: it indexes
\* config["grid_layout"] and the fields it prints with [...], not with .get
DemoGridPositions(c) ==
    IF c.grid_layout = {} THEN "KeyError"
    ELSE LET grid == Get(c.grid_layout, EmptyGrid)
         IN  IF \/ grid.grid_size = {}
                \/ Get(grid.grid_size, EmptySize).width = {}
                \/ Get(grid.grid_size, EmptySize).height = {}
                \/ grid.start_position = {}
                \/ Get(grid.start_position, EmptyPoint).x = {}
                \/ Get(grid.start_position, EmptyPoint).y = {}
                \/ grid.max_columns = {}
             THEN "KeyError"
             ELSE "ok"

\* demo_grid.py is run with the loaded configuration
DemoGrid ==
    /\ config.state = "loaded"
    /\ demo = "none"
    /\ demo' = DemoGridPositions(config.value)
    /\ UNCHANGED <<document, config, classifier_vars, grid_vars, run_vars>>

NextLoad ==
    \/ Construct
    \/ ClassifyOnLoaded
    \/ PositionOnLoaded
    \/ DemoGrid

SpecLoad == InitLoad /\ [][NextLoad]_vars

-----------------------------------------------------------------------------
(* Vocabulary of the loader properties *)

\* __init__ has run, to its end or to an exception
Constructed == config.state # "unloaded"

\* the document is absent or a JSON object
IsKeyValue == document.kind \in {"absent", "object"}

\* the file exists and is no JSON object
IsMalformed == document.kind \notin {"absent", "object"}

\* the value the document gives under a top-level key, the default without one
Merged(key) ==
    IF document.kind = "object" /\ document.value[key] # {}
    THEN CHOOSE v \in document.value[key] : TRUE
    ELSE default_config[key]

\* the loaded configuration holds the merged value under every default key
TopLevelMerged ==
    /\ config.state = "loaded"
    /\ \A key \in TopKeys : config.value[key] = Merged(key)

-----------------------------------------------------------------------------
(* C13 *)

\* C13 (as claimed): for every configuration document that is absent or gives
\* any subset of the keys at any nesting level, the loaded configuration has
\* a value for every field, the document's where present and the default
\* where missing, so that classification and grid positioning run on it
\* without a missing-key failure.  Refuted: a category that lacks
\* "extensions" or "keywords" is loaded as it is, and classify_item raises
\* KeyError on it; and without a complete "grid_layout" demo_grid_positions
\* raises KeyError, the defaults having no such section.
C13_MergeWithDefaults ==
    Constructed /\ IsKeyValue =>
        /\ TopLevelMerged
        /\ \A i \in 1..Len(config.value.categories) :
              config.value.categories[i].hasExt /\ config.value.categories[i].hasKw
        /\ raised # "KeyError"
        /\ position.raised # "KeyError"
        /\ demo # "KeyError"

\* C13 for the top-level keys alone, where it holds: each of "categories",
\* "ignore_files", "dry_run", "create_backup", "ask_confirmation" is the
\* document's value where present and the default where missing, and a
\* missing or partial "grid_layout" raises no KeyError in the grid.
C13_TopLevelMerge ==
    Constructed /\ IsKeyValue => TopLevelMerged /\ position.raised # "KeyError"

\* a document whose only category lacks "extensions" was loaded and a file
\* was classified with it
C13_Witness ==
    /\ document.kind = "object"
    /\ config.state = "loaded"
    /\ Len(table) = 1
    /\ ~table[1].hasExt
    /\ pc = "done"
    /\ raised = "KeyError"

-----------------------------------------------------------------------------
(* C14 *)

\* C14 (as claimed): when the configuration file exists but cannot be read or
\* parsed, or parses to something that is no key/value document, _load_config
\* returns exactly the built-in default configuration and the run goes on.
\* Refuted: a JSON array, string, number or null (and bytes that are no
\* text) raise an exception the except clause does not catch.
C14_MalformedFallsBack ==
    Constructed /\ IsMalformed => config = Loaded(default_config)

\* C14 for a file that cannot be opened or is no JSON text, where it holds
C14_ParseFailureFallsBack ==
    Constructed /\ document.kind \in {"unreadable", "not_json"} =>
        config = Loaded(default_config)

\* the file holds  []  and __init__ ended in TypeError
C14_Witness ==
    /\ document.kind = "array"
    /\ document.holds = {}
    /\ config.state = "raised"
    /\ config.error = "TypeError"

-----------------------------------------------------------------------------
(* The desktop folder: scan_desktop, create_category_folders, move_item *)

\* An entry of a folder: a file, or a folder with the entries it holds; data
\* stands for its content.  What a folder inside a folder holds is not kept:
\* no operation looks that deep.
Entry(stem, suffix, kind, data, holds) ==
    [stem |-> stem, suffix |-> suffix, kind |-> kind, data |-> data, holds |-> holds]

File(stem, suffix, data) == Entry(stem, suffix, "file", data, {})

Dir(name, data, holds) == Entry(name, <<>>, "dir", data, holds)

\* Path.name
FullName(e) == e.stem \o e.suffix

\* (folder / name).exists()
Has(folder, name) == \E e \in folder : FullName(e) = name

\* the entry of that name
At(folder, name) == CHOOSE e \in folder : FullName(e) = name

\* (folder / name).is_dir()
IsDir(folder, name) == Has(folder, name) /\ At(folder, name).kind = "dir"

\* the keys of self.config["categories"]
CategoryKeys(cats) == {cats[i].name : i \in 1..Len(cats)}

\* scan_desktop on the user desktop
ScanDesktop(entries, ignore_files, cats) ==
    {e \in entries :
        /\ FullName(e) \notin ignore_files
        /\ ~(e.kind = "dir" /\ FullName(e) \in CategoryKeys(cats))}

\* _classify_folder's loop over the file children; the order of iterdir does
\* not matter to what follows, a tie of counts never passing the threshold
RECURSIVE TallyAll(_, _, _)
TallyAll(cats, files, types) ==
    IF files = {} THEN types
    ELSE LET f == CHOOSE f \in files : TRUE
         IN  TallyAll(cats, files \ {f},
                      Tally(types, ClassifyFile(cats, f.stem, f.suffix, NoTarget).label))

\* classify_item on an entry of the desktop
ClassifyEntry(cats, e) ==
    IF e.kind = "dir"
    THEN LET byName == FolderByName(cats, 1, LowerStr(FullName(e)))
             files == {k \in e.holds : k.kind = "file"}
             category ==
                 IF byName > 0 THEN cats[byName].name
                 ELSE ContentCategory(TallyAll(cats, files, <<>>), Cardinality(files))
         IN  SameNameGuard(FullName(e), category)
    ELSE ClassifyFile(cats, e.stem, e.suffix, NoTarget).label

\* create_category_folders: mkdir for every category whose path does not exist
CreateCategoryFolders(entries, categories) ==
    entries \cup {Dir(c, "new", {}) : c \in {c \in categories : ~Has(entries, c)}}

\* the entries of destination_folder; none while it is missing or a file
DestinationFolder(entries, category) ==
    IF IsDir(entries, category) THEN At(entries, category).holds ELSE {}

Digits == <<"0", "1", "2", "3", "4", "5", "6", "7", "8", "9">>

\* f"{counter}"
RECURSIVE Str(_)
Str(k) ==
    IF k < 10 THEN <<Digits[k + 1]>>
    ELSE Str(k \div 10) \o <<Digits[(k % 10) + 1]>>

\* Mutant of FreeStem: the first numbered name is taken without a look.
FreeStem_Unchecked(folder, base_name, extension, counter) ==
    base_name \o <<"_">> \o Str(counter)

\* the while loop of move_item: the stem of the first numbered name, from
\* counter on, that does not exist in the destination folder
RECURSIVE FreeStem(_, _, _, _)
FreeStem(folder, base_name, extension, counter) ==
    LET new_stem == base_name \o <<"_">> \o Str(counter)
    IN  IF Has(folder, new_stem \o extension)
        THEN FreeStem(folder, base_name, extension, counter + 1)
        ELSE new_stem

\* the stem of destination_path
DestinationStem(folder, e) ==
    IF Has(folder, FullName(e)) THEN FreeStem(folder, e.stem, e.suffix, 1)
    ELSE e.stem

\* shutil.move raises: the destination folder is missing or a file, or the
\* source is the destination folder itself
MoveFails(entries, source, category) ==
    \/ ~IsDir(entries, category)
    \/ (source.kind = "dir" /\ FullName(source) = category)

\* shutil.move has renamed source to destination_folder / (dest_stem + suffix)
Moved(entries, source, category, dest_stem) ==
    LET folder == At(entries, category)
        arrived == Entry(dest_stem, source.suffix, source.kind, source.data, {})
        kept == {k \in folder.holds : FullName(k) # FullName(arrived)}
    IN  (entries \ {source, folder})
            \cup {[folder EXCEPT !.holds = kept \cup {arrived}]}

\* move_item(item_path, category); os_ok: the operating system lets the move
\* happen (no PermissionError)
MoveItem(entries, e, category, dry_run, os_ok) ==
    IF ~Has(entries, FullName(e))
    THEN [returned |-> FALSE, existed |-> FALSE, dest |-> <<>>, entries |-> entries]
    ELSE LET source == At(entries, FullName(e))
             dest_stem == DestinationStem(DestinationFolder(entries, category), e)
             dest == dest_stem \o e.suffix
         IN  IF dry_run
             THEN [returned |-> TRUE, existed |-> TRUE, dest |-> dest,
                   entries |-> entries]
             ELSE IF MoveFails(entries, source, category) \/ ~os_ok
             THEN [returned |-> FALSE, existed |-> TRUE, dest |-> dest,
                   entries |-> entries]
             ELSE [returned |-> TRUE, existed |-> TRUE, dest |-> dest,
                   entries |-> Moved(entries, source, category, dest_stem)]

\* what a call of move_item leaves in the variable move
MoveRecord(e, category, got) ==
    [called |-> TRUE, stem |-> e.stem, suffix |-> e.suffix, category |-> category,
     existed |-> got.existed, dest |-> got.dest, returned |-> got.returned]

-----------------------------------------------------------------------------
(* organize_desktop *)

\* most items one scan returns
MaxItems == 2

\* "Thumbs.db" of config["ignore_files"]
ThumbsDb == <<"T", "h", "u", "m", "b", "s", ".", "d", "b">>

IgnoreFiles == {ThumbsDb}

\* entries scan_desktop returns: two files, the organizer's own "Other" and
\* "Folders" folders as an earlier run left them, a file named "Other"
Scannable ==
    {File(<<"a">>, DotJpg, "p"),
     File(<<" ">>, DotZzz, "q"),
     Dir(Other, "o", {File(<<" ">>, DotZzz, "r")}),
     Dir(Folders, "f", {Dir(Other, "g", {})}),
     File(Other, <<>>, "h")}

\* entries scan_desktop skips: an ignored file, the folder of category "A"
Skipped ==
    {File(<<"T", "h", "u", "m", "b", "s">>, <<".", "d", "b">>, "t"),
     Dir(CatNames[1], "c", {File(<<"a">>, DotJpg, "s")})}

\* no two entries of a folder have the same name
UniqueNames(entries) ==
    \A e1 \in entries, e2 \in entries : FullName(e1) = FullName(e2) => e1 = e2

Desktops ==
    {extras \cup found :
        extras \in {{}, Skipped},
        found \in {S \in SUBSET Scannable :
                      Cardinality(S) <= MaxItems /\ UniqueNames(S)}}

\* self.positioner is only ever set while grid_layout.enabled is true
Settings ==
    {s \in [dry_run : BOOLEAN, create_backup : BOOLEAN, ask_confirmation : BOOLEAN,
            grid_enabled : BOOLEAN, positioner : BOOLEAN] :
        s.positioner => s.grid_enabled}

\* what the user types at the prompt
Answers ==
    {<<"y">>, <<"Y">>, <<" ", "y", "e", "s", " ">>, <<"Y", "E", "S">>,
     <<"n">>, <<>>, <<"y", "e">>, <<"y", " ", "y">>}

\* str.strip()
RECURSIVE Strip(_)
Strip(s) ==
    IF s = <<>> THEN s
    ELSE IF Head(s) = " " THEN Strip(Tail(s))
    ELSE IF s[Len(s)] = " " THEN Strip(SubSeq(s, 1, Len(s) - 1))
    ELSE s

\* Mutant of Accepts: whatever begins with y is taken for a yes.
Accepts_Initial(typed) == typed # <<>> /\ LowerStr(typed)[1] = "y"

\* response = input(...).lower().strip(); response is 'y' or 'yes'
Accepts(typed) ==
    LET response == Strip(LowerStr(typed))
    IN  ~(response # <<"y">> /\ response # <<"y", "e", "s">>)

\* the orders in which iterdir may list the entries
Orderings(S) ==
    {o \in [1..Cardinality(S) -> S] : \A i, j \in 1..Cardinality(S) : o[i] = o[j] => i = j}

\* categories_needed
CategoriesNeeded(labels) == {labels[i] : i \in 1..Len(labels)}

\* find_icon_by_name
FindIconByName(name) == -1

InitRun ==
    /\ Start({OneTable})
    /\ GridIdle
    /\ LoadIdle
    /\ settings \in Settings
    /\ desktop \in Desktops
    /\ before = desktop
    /\ step = "start"
    /\ items = <<>>
    /\ classifications = <<>>
    /\ answer = <<>>
    /\ cursor = 0
    /\ backup = NoBackup
    /\ made = {}
    /\ attempts = <<>>
    /\ success_count = 0
    /\ os_calls = NoOsCalls
    /\ move = NoMove

\* items = self.scan_desktop(); if not items: return
Scan ==
    /\ step = "start"
    /\ LET found == ScanDesktop(desktop, IgnoreFiles, table)
       IN  IF found = {}
           THEN /\ step' = "empty"
                /\ UNCHANGED <<items, attempts, cursor>>
           ELSE /\ \E order \in Orderings(found) : items' = order
                /\ attempts' = [i \in 1..Cardinality(found) |-> 0]
                /\ cursor' = 1
                /\ step' = "classify"
    /\ UNCHANGED <<settings, desktop, before, classifications, answer, backup,
                   made, success_count, os_calls, move>>
    /\ UNCHANGED outside_run

\* one turn of  for item in items: classifications[item] = classify_item(item)
ClassifyNext ==
    /\ step = "classify"
    /\ classifications' = Append(classifications, ClassifyEntry(table, items[cursor]))
    /\ IF cursor = Len(items)
       THEN step' = "confirm" /\ cursor' = 0
       ELSE step' = step /\ cursor' = cursor + 1
    /\ UNCHANGED <<settings, desktop, before, items, answer, backup, made,
                   attempts, success_count, os_calls, move>>
    /\ UNCHANGED outside_run

\* if self.config["ask_confirmation"]: the prompt and the answer
Confirm ==
    /\ step = "confirm"
    /\ IF settings.ask_confirmation
       THEN \E typed \in Answers :
               /\ answer' = typed
               /\ step' = IF Accepts(typed) THEN "backup" ELSE "cancelled"
       ELSE /\ step' = "backup"
            /\ UNCHANGED answer
    /\ UNCHANGED <<settings, desktop, before, items, classifications, cursor,
                   backup, made, attempts, success_count, os_calls, move>>
    /\ UNCHANGED outside_run

\* backup_path = self.create_backup(): a copy of what scan_desktop returns,
\* when enabled
CreateBackup ==
    /\ step = "backup"
    /\ backup' = IF settings.create_backup
                 THEN [made |-> TRUE, copy |-> ScanDesktop(desktop, IgnoreFiles, table)]
                 ELSE backup
    /\ step' = "folders"
    /\ UNCHANGED <<settings, desktop, before, items, classifications, answer,
                   cursor, made, attempts, success_count, os_calls, move>>
    /\ UNCHANGED outside_run

\* backup_path.mkdir raises OSError: the exception leaves organize_desktop
BackupFails ==
    /\ step = "backup"
    /\ settings.create_backup
    /\ step' = "aborted"
    /\ UNCHANGED <<settings, desktop, before, items, classifications, answer,
                   cursor, backup, made, attempts, success_count, os_calls, move>>
    /\ UNCHANGED outside_run

\* self.create_category_folders(categories_needed)
CreateFolders ==
    /\ step = "folders"
    /\ desktop' = CreateCategoryFolders(desktop, CategoriesNeeded(classifications))
    /\ made' = {FullName(e) : e \in desktop' \ desktop}
    /\ step' = "files"
    /\ cursor' = 1
    /\ UNCHANGED <<settings, before, items, classifications, answer, backup,
                   attempts, success_count, os_calls, move>>
    /\ UNCHANGED outside_run

\* Mutant of InFirstPass: the first pass moves every item.
InFirstPass_All(is_dir) == TRUE

\* first pass:  if not item.is_dir()
InFirstPass(is_dir) == ~is_dir

\* second pass:  if item.is_dir()
InSecondPass(is_dir) == is_dir

\* one turn of a pass over classifications.items(): move_item when the test
\* of the pass selects the item
Pass(selected, next_step) ==
    /\ IF selected
       THEN \E os_ok \in BOOLEAN :
               LET got == MoveItem(desktop, items[cursor], classifications[cursor],
                                   settings.dry_run, os_ok)
               IN  /\ desktop' = got.entries
                   /\ move' = MoveRecord(items[cursor], classifications[cursor], got)
                   /\ attempts' = [attempts EXCEPT ![cursor] = @ + 1]
                   /\ success_count' = success_count + (IF got.returned THEN 1 ELSE 0)
       ELSE UNCHANGED <<desktop, move, attempts, success_count>>
    /\ IF cursor = Len(items)
       THEN step' = next_step /\ cursor' = 1
       ELSE step' = step /\ cursor' = cursor + 1
    /\ UNCHANGED <<settings, before, items, classifications, answer, backup,
                   made, os_calls>>
    /\ UNCHANGED outside_run

\* first pass: move files
FirstPass ==
    /\ step = "files"
    /\ Pass(InFirstPass(IsDir(desktop, FullName(items[cursor]))), "dirs")

\* second pass: move folders
SecondPass ==
    /\ step = "dirs"
    /\ Pass(InSecondPass(IsDir(desktop, FullName(items[cursor]))), "grid")

\* Mutant of ShouldRefresh: the desktop is refreshed in a dry run too.
ShouldRefresh_DryRunToo(s, positioned_count) == positioned_count > 0

\* if positioned_count > 0: if not self.config.get("dry_run", False)
ShouldRefresh(s, positioned_count) == positioned_count > 0 /\ ~s.dry_run

\* position_desktop_items: positioned_count counts every item; the calls of
\* find_icon_by_name and set_desktop_icon_position are commented out
PositionDesktopItems(s, calls, count) ==
    IF ~s.positioner THEN calls
    ELSE IF ShouldRefresh(s, count)
    THEN [calls EXCEPT !.refresh_desktop = @ + 1]
    ELSE calls

\* if self.config.get("grid_layout", {}).get("enabled", False):
\*     self.position_desktop_items(classifications)
ApplyGrid ==
    /\ step = "grid"
    /\ os_calls' = IF settings.grid_enabled
                   THEN PositionDesktopItems(settings, os_calls, Len(classifications))
                   ELSE os_calls
    /\ step' = "summary"
    /\ UNCHANGED <<settings, desktop, before, items, classifications, answer,
                   cursor, backup, made, attempts, success_count, move>>
    /\ UNCHANGED outside_run

\* the summary line; organize_desktop returns
Summary ==
    /\ step = "summary"
    /\ step' = "done"
    /\ UNCHANGED <<settings, desktop, before, items, classifications, answer,
                   cursor, backup, made, attempts, success_count, os_calls, move>>
    /\ UNCHANGED outside_run

NextRun ==
    \/ Scan
    \/ ClassifyNext
    \/ Confirm
    \/ CreateBackup
    \/ BackupFails
    \/ CreateFolders
    \/ FirstPass
    \/ SecondPass
    \/ ApplyGrid
    \/ Summary

SpecRun == InitRun /\ [][NextRun]_vars

-----------------------------------------------------------------------------
(* Vocabulary of the workflow properties *)

\* organize_desktop has returned after the summary
RunDone == step = "done"

\* the indices of the scanned items
Scanned == 1..Len(items)

\* move_item was called on some item
SomeMove == \E i \in 1..Len(attempts) : attempts[i] > 0

\* n spaces
Spaces(n) == [i \in 1..n |-> " "]

\* the text is y or yes in any case, with any spaces around it
SaysYes(text) ==
    \E i \in 0..Len(text), j \in 0..Len(text) :
        /\ i + j <= Len(text)
        /\ SubSeq(text, 1, i) = Spaces(i)
        /\ SubSeq(text, Len(text) - j + 1, Len(text)) = Spaces(j)
        /\ LowerStr(SubSeq(text, i + 1, Len(text) - j)) \in {<<"y">>, <<"y", "e", "s">>}

\* every label classify_item can return
AllLabels == {table[i].name : i \in 1..Len(table)} \cup {Folders, Other, MediaTools, CodingTools}

-----------------------------------------------------------------------------
(* C15 *)

\* C15: in every run of organize_desktop, grid layout enabled or not, dry
\* run or not, set_desktop_icon_position is never invoked and
\* find_icon_by_name gives -1 for every name; the only call made on the
\* positioner is refresh_desktop, and only when the grid is enabled, a
\* positioner exists, at least one item was classified and dry_run is false.
C15_NoRepositioning ==
    /\ os_calls.set_desktop_icon_position = 0
    /\ os_calls.find_icon_by_name = 0
    /\ \A e \in desktop : FindIconByName(FullName(e)) = -1
    /\ (os_calls.refresh_desktop > 0 =>
            /\ settings.grid_enabled
            /\ settings.positioner
            /\ Len(classifications) > 0
            /\ ~settings.dry_run)

\* a run with the grid enabled, a positioner and dry_run false has ended:
\* the desktop was refreshed and no icon was positioned
C15_Witness ==
    /\ RunDone
    /\ settings.grid_enabled /\ settings.positioner /\ ~settings.dry_run
    /\ Len(items) = 2
    /\ os_calls.refresh_desktop = 1
    /\ os_calls.set_desktop_icon_position = 0

-----------------------------------------------------------------------------
(* C16 *)

\* C16 (as claimed): when dry_run is true, a complete run of
\* organize_desktop leaves the desktop exactly as it was: no item is moved,
\* renamed or deleted and no folder is created on it, whatever create_backup
\* and the grid layout are.  Refuted: create_category_folders does not look
\* at dry_run and creates the folder of every category needed.
C16_DryRunNoChange == RunDone /\ settings.dry_run => desktop = before

\* C16 for the items alone, where it holds: in a dry run every entry the
\* desktop held is still there, unchanged, and move_item reports success
\* without moving.
C16_DryRunMovesNothing ==
    settings.dry_run => before \subseteq desktop /\ desktop \ before = {Dir(n, "new", {}) : n \in made}

\* a dry run has ended and left a new folder on the desktop
C16_Witness ==
    /\ RunDone
    /\ settings.dry_run
    /\ made # {}
    /\ desktop # before

-----------------------------------------------------------------------------
(* C17 *)

\* C17: when ask_confirmation is true and the answer is anything but y or
\* yes (case-insensitive, surrounding whitespace ignored), organize_desktop
\* returns without a backup, without creating a category folder, without
\* moving an item and without a positioning call; the desktop is as it was.
C17_Declined ==
    /\ (settings.ask_confirmation /\ ~SaysYes(answer) =>
            step \in {"start", "empty", "classify", "confirm", "cancelled"})
    /\ (step = "cancelled" =>
            /\ settings.ask_confirmation /\ ~SaysYes(answer)
            /\ desktop = before
            /\ ~backup.made
            /\ made = {}
            /\ ~SomeMove
            /\ ~move.called
            /\ success_count = 0
            /\ os_calls = NoOsCalls)

\* the user typed "ye" and the run of two classified items was cancelled
C17_Witness ==
    /\ step = "cancelled"
    /\ answer = <<"y", "e">>
    /\ Len(classifications) = 2
    /\ ~settings.dry_run

-----------------------------------------------------------------------------
(* C18 *)

\* C18 (as claimed): scan_desktop never returns a folder that is one of the
\* organizer's own destination folders: for every label L classify_item can
\* return (the configured category names and "Folders", "Other",
\* "Media Tools", "Coding Tools") a desktop folder named L is not in the scan
\* result, so a second run attempts no move of a category folder.  Refuted:
\* only the configured names are skipped; the folder "Other" an earlier run
\* created is scanned, classified and moved.
C18_OwnFoldersSkipped ==
    \A i \in Scanned :
        ~(items[i].kind = "dir" /\ FullName(items[i]) \in AllLabels)

\* C18 for the configured category names alone, where it holds
C18_ConfiguredSkipped ==
    \A i \in Scanned :
        ~(items[i].kind = "dir"
          /\ FullName(items[i]) \in {table[k].name : k \in 1..Len(table)})

\* the "Other" folder of an earlier run was scanned and has been moved into
\* "Folders"
C18_Witness ==
    /\ RunDone
    /\ \E i \in Scanned :
          /\ items[i].kind = "dir"
          /\ FullName(items[i]) = Other
          /\ classifications[i] = Folders
          /\ attempts[i] = 1
    /\ ~Has(desktop, Other)
    /\ IsDir(desktop, Folders)
    /\ Has(At(desktop, Folders).holds, Other)

-----------------------------------------------------------------------------
(* move_item on its own *)

\* most numbered names "a_1.jpg", "a_2.jpg", ... taken before the call
MaxTaken == 2

\* "a_k"
Numbered(k) == <<"a", "_">> \o Str(k)

\* what the folder of category "A" may hold before the call
Taken ==
    {File(<<"a">>, DotJpg, "x"), Dir(<<"a">>, "y", {}), Dir(Numbered(1), "z", {})}
    \cup {File(Numbered(k), DotJpg, "n") : k \in 1..MaxTaken}

\* the items move_item is called on
MoveSources ==
    {File(<<"a">>, DotJpg, "s"), File(Numbered(1), DotJpg, "s"), Dir(<<"a">>, "s", {})}

\* the desktop before the call: at most one of the items, and the category
\* folder with any of the names taken, or no category folder
MoveDesktops ==
    {present \cup folder :
        present \in {{}} \cup {{e} : e \in MoveSources},
        folder \in {{}} \cup {{Dir(CatNames[1], "c", held)} : held \in SUBSET Taken}}

InitMove ==
    /\ Start({OneTable})
    /\ GridIdle
    /\ LoadIdle
    /\ settings \in {[DefaultSettings EXCEPT !.dry_run = d] : d \in BOOLEAN}
    /\ desktop \in MoveDesktops
    /\ before = desktop
    /\ step = "start"
    /\ items = <<>>
    /\ classifications = <<>>
    /\ answer = <<>>
    /\ cursor = 0
    /\ backup = NoBackup
    /\ made = {}
    /\ attempts = <<>>
    /\ success_count = 0
    /\ os_calls = NoOsCalls
    /\ move = NoMove

\* one call of move_item(item_path, "A")
MoveOne ==
    /\ ~move.called
    /\ \E e \in MoveSources, os_ok \in BOOLEAN :
          LET got == MoveItem(desktop, e, CatNames[1], settings.dry_run, os_ok)
          IN  /\ desktop' = got.entries
              /\ move' = MoveRecord(e, CatNames[1], got)
    /\ UNCHANGED <<settings, before, step, items, classifications, answer, cursor,
                   backup, made, attempts, success_count, os_calls>>
    /\ UNCHANGED outside_run

NextMove == MoveOne

SpecMove == InitMove /\ [][NextMove]_vars

-----------------------------------------------------------------------------
(* C19 *)

\* what the category folder of the call held in the given desktop
HeldIn(entries) ==
    IF \E f \in entries : f.kind = "dir" /\ f.stem \o f.suffix = move.category
    THEN (CHOOSE f \in entries : f.kind = "dir" /\ f.stem \o f.suffix = move.category).holds
    ELSE {}

\* the names in a set of entries
NamesOf(entries) == {e.stem \o e.suffix : e \in entries}

\* <stem>_<k><extension> of the item of the call
Renamed(k) == move.stem \o <<"_">> \o Str(k) \o move.suffix

\* the name C19 gives the destination: the item's own name while it is free
\* in the category folder, else the numbered name of the smallest k >= 1
\* that is free
ClaimedDest ==
    LET taken == NamesOf(HeldIn(before))
        free == {k \in 1..(Cardinality(taken) + 1) : Renamed(k) \notin taken}
    IN  IF move.stem \o move.suffix \notin taken THEN move.stem \o move.suffix
        ELSE Renamed(Min(free))

\* C19: move_item never moves an item onto a path that exists in the
\* category folder; when <category>/<name> exists the destination is
\* <stem>_<k><extension> for the smallest k >= 1 whose path does not exist
\* (the search ends within one more step than the folder has entries); the
\* entries the folder held are unchanged after the move; and when the source
\* no longer exists move_item returns False and changes nothing.
C19_NoOverwrite ==
    move.called =>
        /\ (~move.existed => ~move.returned /\ desktop = before)
        /\ (move.existed =>
              /\ move.dest = ClaimedDest
              /\ move.dest \notin NamesOf(HeldIn(before))
              /\ HeldIn(before) \subseteq HeldIn(desktop)
              /\ IF move.returned /\ ~settings.dry_run
                 THEN /\ NamesOf(HeldIn(desktop)) =
                            NamesOf(HeldIn(before)) \cup {move.dest}
                      /\ Cardinality(HeldIn(desktop)) = Cardinality(HeldIn(before)) + 1
                      /\ move.stem \o move.suffix \notin NamesOf(desktop)
                 ELSE desktop = before)

\* "a.jpg" was moved into a folder that held a.jpg, a_1.jpg and a_2.jpg: it
\* arrived as a_3.jpg
C19_Witness ==
    /\ move.called
    /\ move.returned
    /\ ~settings.dry_run
    /\ move.stem = <<"a">> /\ move.suffix = DotJpg
    /\ move.dest = <<"a", "_", "3">> \o DotJpg
    /\ Cardinality(HeldIn(desktop)) >= 4

-----------------------------------------------------------------------------
(* C20 *)

\* the run is past the confirmation
PastConfirmation ==
    step \in {"backup", "folders", "files", "dirs", "grid", "summary", "done", "aborted"}

\* both passes are over
PassesOver == step \in {"grid", "summary", "done"}

\* something outside the run's own memory was changed: the desktop, the
\* backup directory
FilesystemChanged == desktop # before \/ backup.made \/ made # {}

\* every scanned item has its category
AllClassified == Len(items) >= 1 /\ Len(classifications) = Len(items)

\* the names at the top of the desktop when the run began
NamesBefore == {e.stem \o e.suffix : e \in before}

-----------------------------------------------------------------------------
(* position_desktop_items *)

\* the "grid_layout" sections position_desktop_items is run on: a cell width
\* of 0 and "max_columns": 0 among them, the start position left at its
\* default, and every section that leaves the built-in values in place
PlaceLayouts ==
    Opt([grid_size : Opt([width : Opt({0, 3}), height : Opt({5})]),
         start_position : {{}},
         max_columns : Opt(0..MaxColumns),
         category_spacing : Opt({[x |-> {13}, y |-> {17}]}),
         category_order : Opt(Orders)])

\* the values of the classifications dict, in the order of its items: one to
\* MaxIndex + 1 items of one category, then none to MaxIndex + 1 of another
Classified ==
    {[k \in 1..n |-> c] \o [k \in 1..m |-> d] :
        c \in {CatNames[1], CatNames[2], Other},
        d \in {CatNames[1], CatNames[2], Other},
        n \in 1..(MaxIndex + 1),
        m \in 0..(MaxIndex + 1)}

\* for category, items in categories.items(): for index, item in
\* enumerate(items): calculate_grid_position(category, index); entry k is the
\* call made for item k, its index the count of earlier items of its category
GridPositions(layout, labels) ==
    [k \in 1..Len(labels) |->
        LET index == Cardinality({j \in 1..(k - 1) : labels[j] = labels[k]})
            got == CalculateGridPosition(layout, labels[k], index)
        IN  [called |-> TRUE, category |-> labels[k], index |-> index,
             raised |-> got.raised, x |-> got.x, y |-> got.y]]

\* position_desktop_items(classifications) is about to be called on an
\* organizer that has its positioner
InitPlace ==
    /\ Start({OneTable})
    /\ LoadIdle
    /\ grid_layout \in PlaceLayouts
    /\ position = NoCall
    /\ placed = <<>>
    /\ settings = [DefaultSettings EXCEPT !.dry_run = FALSE, !.grid_enabled = TRUE,
                                          !.positioner = TRUE]
    /\ classifications \in Classified
    /\ items = [k \in 1..Len(classifications) |-> File(Str(k), DotZzz, "p")]
    /\ desktop = {items[k] : k \in 1..Len(items)}
    /\ before = desktop
    /\ step = "grid"
    /\ answer = <<>>
    /\ cursor = 0
    /\ backup = NoBackup
    /\ made = {}
    /\ attempts = <<>>
    /\ success_count = 0
    /\ os_calls = NoOsCalls
    /\ move = NoMove

\* position_desktop_items: the loop over the categories in the order of their
\* first item; the first call of calculate_grid_position that raises ends
\* it, and the desktop is refreshed only when the loop came to its end
PositionItems ==
    /\ settings.positioner
    /\ ~position.called
    /\ LET calls == GridPositions(grid_layout, classifications)
           firstAt(k) == Min({j \in 1..Len(classifications) :
                                  classifications[j] = classifications[k]})
           lastGroup == Max({firstAt(k) : k \in 1..Len(classifications)})
           last == Max({k \in 1..Len(classifications) : firstAt(k) = lastGroup})
       IN  IF calls[1].raised # "none"
           THEN /\ position' = calls[1]
                /\ UNCHANGED <<placed, os_calls>>
           ELSE /\ position' = calls[last]
                /\ placed' = calls
                /\ os_calls' = PositionDesktopItems(settings, os_calls,
                                                    Len(classifications))
    /\ UNCHANGED <<grid_layout, settings, desktop, before, step, items,
                   classifications, answer, cursor, backup, made, attempts,
                   success_count, move>>
    /\ UNCHANGED <<classifier_vars, load_vars>>

SpecPlace == InitPlace /\ [][PositionItems]_vars

-----------------------------------------------------------------------------
(* C21 *)

\* the items position_desktop_items has computed a position for
Placed == 1..Len(placed)

\* items a and b were given the same (x, y)
SamePlace(a, b) == placed[a].x = placed[b].x /\ placed[a].y = placed[b].y

\* the grid section leaves the built-in values in place: cell 100x100, at
\* most 8 columns, category spacing 200x150
BuiltInGrid ==
    /\ cellWidth = 100 /\ cellHeight = 100
    /\ maxColumns = 8
    /\ categorySpacingX = 200 /\ categorySpacingY = 150

\* the categories categoryOrder lists
Ordered == {categoryOrder[i] : i \in 1..Len(categoryOrder)}

\* C21, first half: with positive cellWidth, cellHeight and maxColumns any
\* two distinct indices within the same category receive distinct (x, y)
\* positions.  It holds.
C21_SameCategoryDistinct ==
    (cellWidth > 0 /\ cellHeight > 0 /\ maxColumns > 0) =>
        \A a \in Placed, b \in Placed :
            (/\ placed[a].category = placed[b].category
             /\ placed[a].index # placed[b].index) => ~SamePlace(a, b)

\* C21, second half: with the built-in grid values two items in different
\* categories of categoryOrder never receive the same (x, y) position.
C21_DifferentCategoriesDistinct ==
    BuiltInGrid =>
        \A a \in Placed, b \in Placed :
            (/\ placed[a].category # placed[b].category
             /\ placed[a].category \in Ordered
             /\ placed[b].category \in Ordered) => ~SamePlace(a, b)

\* C21 (as claimed): grid positions do not overlap, within a category for
\* positive cellWidth, cellHeight and maxColumns, and between the categories
\* of categoryOrder for the built-in grid values.  Refuted: a category is up
\* to 8 cells of 100 wide and the next category begins 200 further, so the
\* third item of a category lies on the first item of the next.
C21_NoOverlap == C21_SameCategoryDistinct /\ C21_DifferentCategoriesDistinct

\* C21 where no category has more than two items: the built-in values keep
\* the categories of categoryOrder apart.
C21_TwoPerCategoryDistinct ==
    BuiltInGrid =>
        \A a \in Placed, b \in Placed :
            (/\ placed[a].category # placed[b].category
             /\ placed[a].category \in Ordered
             /\ placed[b].category \in Ordered
             /\ placed[a].index <= 1
             /\ placed[b].index <= 1) => ~SamePlace(a, b)

\* the overlap that refutes C21: built-in values, two categories of
\* categoryOrder, index 2 of the first and index 0 of the second at (250, 50)
C21_Witness ==
    /\ BuiltInGrid
    /\ categoryOrder = <<CatNames[2], CatNames[1]>>
    /\ \E a \in Placed, b \in Placed :
          /\ placed[a].category = CatNames[2] /\ placed[a].index = 2
          /\ placed[b].category = CatNames[1] /\ placed[b].index = 0
          /\ placed[a].x = 250 /\ placed[a].y = 50
          /\ SamePlace(a, b)

====
